---- MODULE Spec2Model ----
(***************************************************************************)
(* Model of @_apparatus_/microfrontend-vite: the mfe:css plugin            *)
(* (src/unnamed/part_003, both versions of plugin.ts: the MFE variant at   *)
(* lines 155-194 and the NAME variant at lines 380-410) and the runtime    *)
(* helpers of src/src/index.ts (getStyle, getShadow, bootstrap).           *)
(*                                                                         *)
(* Strings are TLA+ strings; Len, SubSeq and \o act on them character by   *)
(* character.  A string literal of this language cannot hold the backtick  *)
(* character, so BT stands for it wherever the source writes a backtick.   *)
(***************************************************************************)
EXTENDS Integers, Sequences, FiniteSets, TLC

VARIABLES
    variant,        \* which version of plugin.ts built the page: "MFE" or "NAME"
    windowStyles,   \* window[mfe-styles]: property name -> registry object
    windowShadow,   \* window[mfe-shadow]: property name -> the WeakRef stored there
    listeners,      \* the window EventTarget's listener list, in registration order
    elems,          \* style elements created by getStyle, by allocation index
    hosts,          \* host elements handed to the mount function
    writes,         \* history: fragment ids in first-write order with their latest text
    last,           \* history: the last call made and what it emitted
    threw,          \* history: some call ended with an exception
    deadWrite,      \* history: a listener wrote to a reclaimed element
    bundle,         \* the output bundle handed to generateBundle, in Object.values order
    bundleIn,       \* history: the bundle as the bundler produced it
    moduleCode,     \* the code of the module the development server is serving
    moduleIn,       \* history: the module as the server handed it to transform
    loaded,         \* the chunks of the generated bundle that the page has executed
    phase           \* "page" on a running page; of a build: "bundled", then "generated"

pageVars == <<windowStyles, windowShadow, listeners, elems, hosts, writes, last, threw, deadWrite>>
vars == <<variant, pageVars, bundle, bundleIn, moduleCode, moduleIn, loaded, phase>>

----------------------------------------------------------------------------
(* Bounds of the model *)

MaxElems == 2       \* style elements that getStyle may create
MaxHosts == 2       \* host elements that may be mounted
MaxTags == 2        \* tags and line breaks in the source of the HTML asset

----------------------------------------------------------------------------
(* Inputs *)

Variants == {"MFE", "NAME"}

\* The identity of the page's microfrontend (import.meta.env.MFE / name).
App == "app"
Other == "app-styles"
Mfes == {App, Other}

\* Fragment ids: two module/chunk names and one that is a canonical array index.
Ids == {"main", "lazy", "7"}

\* CSS texts; the empty text is what a removal dispatches.
Texts == {"", "a{}", "b{}"}

\* undefined; a reference that is defined is the one-element tuple of its target.
Undefined == <<>>

----------------------------------------------------------------------------
(* Strings *)

Char(s, i) == SubSeq(s, i, i)

StartsWithAt(s, i, pat) ==
    /\ i >= 1
    /\ i + Len(pat) - 1 <= Len(s)
    /\ SubSeq(s, i, i + Len(pat) - 1) = pat

RECURSIVE Join(_, _)
\* Array.prototype.join: the items separated by sep.
Join(items, sep) ==
    IF Len(items) = 0 THEN ""
    ELSE IF Len(items) = 1 THEN items[1]
    ELSE items[1] \o sep \o Join(Tail(items), sep)

----------------------------------------------------------------------------
(* JavaScript objects used as string-keyed maps (the registry).            *)
(* An object is the sequence of its own properties in the order            *)
(* OrdinaryOwnPropertyKeys lists them: array-index keys in ascending       *)
(* numeric order first, then the other string keys in creation order.      *)

Digits == {"0", "1", "2", "3", "4", "5", "6", "7", "8", "9"}

\* The place of a digit in "0123456789".
DigitRank(c) == CHOOSE i \in 1..10 : Char("0123456789", i) = c

RECURSIVE DigitsLess(_, _)
\* a < b for two digit strings of the same length
DigitsLess(a, b) ==
    IF Len(a) = 0 THEN FALSE
    ELSE IF Char(a, 1) = Char(b, 1) THEN DigitsLess(Tail(a), Tail(b))
    ELSE DigitRank(Char(a, 1)) < DigitRank(Char(b, 1))

\* a < b as numbers, for two canonical decimal strings
NumLess(a, b) == Len(a) < Len(b) \/ (Len(a) = Len(b) /\ DigitsLess(a, b))

\* 2^32 - 2, the largest array index
MaxArrayIndex == "4294967294"

\* A property key is an array index when it is the canonical decimal form of
\* an integer in 0 .. 2^32 - 2.
IsArrayIndex(key) ==
    /\ Len(key) >= 1
    /\ \A i \in 1..Len(key) : Char(key, i) \in Digits
    /\ (Len(key) = 1 \/ Char(key, 1) # "0")
    /\ ~NumLess(MaxArrayIndex, key)

HasKey(obj, key) == \E i \in 1..Len(obj) : obj[i].key = key

KeyIndex(obj, key) == CHOOSE i \in 1..Len(obj) : obj[i].key = key

\* Where a new property with this key goes in the own-property order.
InsertAt(obj, key) ==
    IF IsArrayIndex(key)
    THEN Cardinality({i \in 1..Len(obj) :
            IsArrayIndex(obj[i].key) /\ NumLess(obj[i].key, key)}) + 1
    ELSE Len(obj) + 1

\* An assignment that deletes the property when the value is empty.
ObjSetOrDelete(obj, key, value) ==
    IF value = "" THEN SelectSeq(obj, LAMBDA x : x.key # key)
    ELSE IF HasKey(obj, key)
    THEN [obj EXCEPT ![KeyIndex(obj, key)].value = value]
    ELSE LET at == InsertAt(obj, key)
         IN  SubSeq(obj, 1, at - 1) \o <<[key |-> key, value |-> value]>>
                \o SubSeq(obj, at, Len(obj))

\* obj[key] = value
ObjSet(obj, key, value) ==
    IF HasKey(obj, key)
    THEN [obj EXCEPT ![KeyIndex(obj, key)].value = value]
    ELSE LET at == InsertAt(obj, key)
         IN  SubSeq(obj, 1, at - 1) \o <<[key |-> key, value |-> value]>>
                \o SubSeq(obj, at, Len(obj))

\* Object.values(obj)
ObjectValues(obj) == [i \in 1..Len(obj) |-> obj[i].value]

----------------------------------------------------------------------------
(* Names derived from the identity (template strings of the source)        *)

StylesKey(mfe) == mfe \o "-styles"
ShadowKey(mfe) == mfe \o "-shadow"
\* One request event shared by all microfrontends of the page.
RequestEventShared(mfe) == "styles-request"

StylesEvent(mfe) == mfe \o "-styles"
RequestEvent(mfe) == mfe \o "-styles-request"

StylesKeys == {StylesKey(m) : m \in Mfes}
ShadowKeys == {ShadowKey(m) : m \in Mfes}

\* The separator of the aggregate: join('') in the MFE variant, join('\n')
\* in the NAME variant.
Sep(v) == IF v = "MFE" THEN "" ELSE "\n"

NoRegistry == [exists |-> FALSE, entries |-> <<>>]

NoElem == [state |-> "none", held |-> FALSE, content |-> "", got |-> FALSE,
           finreg |-> "none", aborted |-> FALSE]

\* A host element: dataset.mfe, its shadow root ("none", "attached" or
\* "collected"), the shadow root's children, and whether the host page
\* still holds it.
NoHost == [dataset |-> "", shadow |-> "none", children |-> <<>>, reachable |-> TRUE]

----------------------------------------------------------------------------
(* The page: what the handlers read and write.                             *)
(*   ws  window[...-styles]     ls  listener list     el  style elements   *)
(*   sh  window[...-shadow]     ho  host elements                          *)
(*   ev  events dispatched by the call in progress                         *)
(*   err an exception escaped    dead a reclaimed element was written      *)
(*   skip a listener found its element reclaimed and did nothing           *)

Page == [ws |-> windowStyles, ls |-> listeners, el |-> elems, sh |-> windowShadow,
         ho |-> hosts, ev |-> <<>>, err |-> FALSE, dead |-> FALSE, skip |-> FALSE]

\* WeakRef.prototype.deref
deref(p, e) == IF p.el[e].state = "collected" THEN Undefined ELSE <<e>>

\* Element.replaceChildren(text) on the value the listener holds.
replaceChildren(p, target, detail) ==
    IF target = Undefined THEN [p EXCEPT !.err = TRUE]
    ELSE IF p.el[target[1]].state = "collected" THEN [p EXCEPT !.dead = TRUE]
    ELSE [p EXCEPT !.el[target[1]].content = detail, !.el[target[1]].got = TRUE]

\* The listener a shortcut would write: no optional chaining after deref().
styleListenerUnguarded(p, e, detail) == replaceChildren(p, deref(p, e), detail)

\* e => ref.deref()?.replaceChildren(e.detail)
styleListener(p, e, detail) ==
    IF deref(p, e) = Undefined THEN [p EXCEPT !.skip = TRUE]
    ELSE replaceChildren(p, deref(p, e), detail)

\* The aggregate the replay listener puts in the event:
\* Object.values(styles).join(sep)
Aggregate(registry, v) == Join(ObjectValues(registry.entries), Sep(v))

IsRegistered(ls, l) == \E i \in 1..Len(ls) : ls[i] = l

\* What a listener of the host page that calls back into the microfrontend
\* passes to dispatch.
ReenterId == "lazy"
ReenterText == "b{}"

\* The element document.createElement returns next, in page p.
FreeElemOf(p) ==
    CHOOSE e \in 1..MaxElems : p.el[e].state = "none" /\ \A d \in 1..(e - 1) : p.el[d].state # "none"

RECURSIVE dispatchFrom(_, _, _, _, _)
RECURSIVE dispatch(_, _, _, _, _)
RECURSIVE getStyle(_, _, _)
\* EventTarget.dispatchEvent: the listeners of the event's type, from a copy
\* of the list taken when the dispatch starts, each run to completion in
\* registration order; one removed meanwhile is skipped.  A listener added
\* with { once: true } is removed before its callback runs; the callback
\* of such a listener calls dispatch or getStyle while the event is still
\* being delivered.
dispatchFrom(p, snapshot, i, type, detail) ==
    IF i > Len(snapshot) THEN p
    ELSE LET l == snapshot[i]
             run == l.type = type /\ IsRegistered(p.ls, l)
             q == IF ~run THEN p
                  ELSE IF l.kind = "replay"
                  THEN LET d == Aggregate(p.ws[StylesKey(l.mfe)], l.variant)
                           q0 == [p EXCEPT !.ev = Append(@, [type |-> StylesEvent(l.mfe), detail |-> d])]
                       IN  dispatchFrom(q0, q0.ls, 1, StylesEvent(l.mfe), d)
                  ELSE IF l.kind = "style" THEN styleListener(p, l.elem, detail)
                  ELSE LET once == [p EXCEPT !.ls = SelectSeq(@, LAMBDA x : x # l)]
                       IN  IF l.kind = "reenterDispatch"
                           THEN dispatch(once, l.variant, l.mfe, ReenterId, ReenterText)
                           ELSE getStyle(once, l.mfe, FreeElemOf(once))
         IN  dispatchFrom(q, snapshot, i + 1, type, detail)

\* dispatchEvent(new Event(type)) / dispatchEvent(new CustomEvent(type, {detail}))
dispatchEvent(p, type, detail) ==
    dispatchFrom([p EXCEPT !.ev = Append(@, [type |-> type, detail |-> detail])],
                 p.ls, 1, type, detail)

addEventListener(p, l) ==
    IF IsRegistered(p.ls, l) THEN p ELSE [p EXCEPT !.ls = Append(@, l)]

\* A dispatcher that registers its replay listener on every call.
needsSetupAlways(p, mfe) == TRUE

\* A dispatcher that reads the flag after it created the registry.
needsSetupNever(p, mfe) == FALSE

\* const setup = !window[mfe-styles]
needsSetup(p, mfe) == ~p.ws[StylesKey(mfe)].exists

\* The dispatcher injected into every chunk and CSS module.
dispatch(p, v, mfe, id, style) ==
    LET setup == needsSetup(p, mfe)
        styles == IF p.ws[StylesKey(mfe)].exists THEN p.ws[StylesKey(mfe)].entries ELSE <<>>
        p1 == [p EXCEPT !.ws[StylesKey(mfe)] =
                    [exists |-> TRUE, entries |-> ObjSet(styles, id, style)]]
        replay == [type |-> RequestEvent(mfe), kind |-> "replay", mfe |-> mfe,
                   variant |-> v, elem |-> 0, n |-> Len(p1.ls)]
        p2 == IF setup THEN addEventListener(p1, replay) ELSE p1
    IN  dispatchEvent(p2, RequestEvent(mfe), "")

\* A getStyle that asks for the replay before it listens.
getStyleRequestFirst(p, mfe, e) ==
    LET created == [p EXCEPT !.el[e] = [state |-> "live", held |-> TRUE, content |-> "",
                        got |-> FALSE, finreg |-> "alive", aborted |-> FALSE]]
        listener == [type |-> StylesEvent(mfe), kind |-> "style", mfe |-> mfe,
                     variant |-> "", elem |-> e, n |-> 0]
    IN  addEventListener(dispatchEvent(created, RequestEvent(mfe), ""), listener)

\* getStyle(): e is the element document.createElement returns.
getStyle(p, mfe, e) ==
    LET created == [p EXCEPT !.el[e] = [state |-> "live", held |-> TRUE, content |-> "",
                        got |-> FALSE, finreg |-> "alive", aborted |-> FALSE]]
        listener == [type |-> StylesEvent(mfe), kind |-> "style", mfe |-> mfe,
                     variant |-> "", elem |-> e, n |-> 0]
    IN  dispatchEvent(addEventListener(created, listener), RequestEvent(mfe), "")

\* abort.abort(): the listener registered with the controller's signal is removed.
abort(ls, e) == SelectSeq(ls, LAMBDA l : ~(l.kind = "style" /\ l.elem = e))

\* The listener's closure keeps the element only through the WeakRef.
ListenerRetains(e) == FALSE

----------------------------------------------------------------------------
(* The shadow root reference (index.ts 47-54)                              *)

\* getShadow(): window[mfe-shadow]?.deref(); the shadow root is named by its host.
getShadow(p, mfe) ==
    LET ref == p.sh[ShadowKey(mfe)]
    IN  IF ref = Undefined THEN Undefined
        ELSE IF p.ho[ref[1]].shadow = "collected" THEN Undefined
        ELSE ref

\* A setShadow that keeps the reference it already has.
setShadowKeepFirst(p, mfe, h) ==
    IF p.sh[ShadowKey(mfe)] = Undefined THEN [p EXCEPT !.sh[ShadowKey(mfe)] = <<h>>] ELSE p

\* setShadow(shadow): window[mfe-shadow] = new WeakRef(shadow)
setShadow(p, mfe, h) == [p EXCEPT !.sh[ShadowKey(mfe)] = <<h>>]

StyleChild(e) == [tag |-> "style", elem |-> e]
DivChild == [tag |-> "div", elem |-> 0]

\* The render function of the microfrontend, as the test of bootstrap writes
\* it: it appends its content to the shadow root and returns its dispose.
render(p, h) == [p EXCEPT !.ho[h].children = Append(@, DivChild)]

\* Element.attachShadow: NotSupportedError when the element is a shadow host already.
CanAttachShadow(p, h) == p.ho[h].shadow = "none"

\* The mount function that bootstrap(options, render) returns, called on
\* host h; e is the element getStyle creates.  ret is what the call returns.
mount(p, mfe, h, e) ==
    LET p0 == [p EXCEPT !.ho[h].dataset = mfe]
    IN  IF ~CanAttachShadow(p0, h) THEN [page |-> [p0 EXCEPT !.err = TRUE], ret |-> "throw"]
        ELSE LET p1 == [p0 EXCEPT !.ho[h].shadow = "attached"]
                 p2 == setShadow(p1, mfe, h)
                 p3 == getStyle(p2, mfe, e)
                 p4 == [p3 EXCEPT !.ho[h].children = Append(@, StyleChild(e))]
             IN  [page |-> render(p4, h), ret |-> "dispose"]

----------------------------------------------------------------------------
(* History *)

\* op: the call; mfe: the microfrontend it was made for; first: its fragment id had never been written before;
\* repeat: it repeats the call made just before it; ev: the events it dispatched.
\* skip: a listener it reached found its element reclaimed.
NoCall == [op |-> "none", mfe |-> "", id |-> "", style |-> "", first |-> FALSE, repeat |-> FALSE,
           elem |-> 0, host |-> 0, ev |-> <<>>, ret |-> "", skip |-> FALSE]

Written(ws, id) == \E i \in 1..Len(ws) : ws[i].key = id

\* The fragment ids in the order of their first write, each with its latest text.
Record(ws, id, style) ==
    IF \E i \in 1..Len(ws) : ws[i].key = id
    THEN [i \in 1..Len(ws) |-> IF ws[i].key = id THEN [key |-> id, value |-> style] ELSE ws[i]]
    ELSE Append(ws, [key |-> id, value |-> style])

\* The events of one type among those a call dispatched.
EventsOf(ev, type) == SelectSeq(ev, LAMBDA x : x.type = type)

----------------------------------------------------------------------------
(* Initial state: a page on which nothing of the microfrontend has run.    *)

\* A module of the development server: a CSS module made of its id, its
\* CSS text and its hot-update line, or any other module.
NoModule == [kind |-> "none", id |-> "", css |-> "", middle |-> "", code |-> ""]

PageInit ==
    /\ windowStyles = [k \in StylesKeys |-> NoRegistry]
    /\ windowShadow = [k \in ShadowKeys |-> Undefined]
    /\ listeners = <<>>
    /\ elems = [e \in 1..MaxElems |-> NoElem]
    /\ hosts = [h \in 1..MaxHosts |-> NoHost]
    /\ writes = <<>>
    /\ last = NoCall
    /\ threw = FALSE
    /\ deadWrite = FALSE

Init ==
    /\ variant \in Variants
    /\ PageInit
    /\ bundle = <<>>
    /\ bundleIn = <<>>
    /\ moduleCode = ""
    /\ moduleIn = NoModule
    /\ loaded = {}
    /\ phase = "page"

\* What a handler leaves in the page.
Commit(p) ==
    /\ windowStyles' = p.ws
    /\ windowShadow' = p.sh
    /\ listeners' = p.ls
    /\ elems' = p.el
    /\ hosts' = p.ho
    /\ threw' = (threw \/ p.err)
    /\ deadWrite' = (deadWrite \/ p.dead)

FreeElem == CHOOSE e \in 1..MaxElems : elems[e].state = "none" /\ \A d \in 1..(e - 1) : elems[d].state # "none"

\* An element is left for the caller and for every registered listener
\* that will call getStyle.
HasFreeElem ==
    Cardinality({e \in 1..MaxElems : elems[e].state = "none"})
        > Cardinality({i \in 1..Len(listeners) : listeners[i].kind = "reenterGetStyle"})

\* The call that produced page p ran a listener that called dispatch.
Reentered(p) ==
    \E i \in 1..Len(listeners) :
        listeners[i].kind = "reenterDispatch" /\ ~IsRegistered(p.ls, listeners[i])

----------------------------------------------------------------------------
(* Actions of the page *)

\* A chunk or a CSS module of the microfrontend runs its dispatcher call.
Dispatch(mfe, id, style) ==
    LET p == dispatch(Page, variant, mfe, id, style)
    IN  /\ Commit(p)
        /\ writes' = IF Reentered(p) THEN Record(Record(writes, id, style), ReenterId, ReenterText)
                     ELSE Record(writes, id, style)
        /\ last' = [NoCall EXCEPT !.op = "dispatch", !.mfe = mfe, !.id = id, !.style = style,
                                  !.first = ~Written(writes, id),
                                  !.repeat = (last.op = "dispatch" /\ last.id = id /\ last.style = style),
                                  !.ev = p.ev, !.skip = p.skip]
        /\ UNCHANGED <<variant, bundle, bundleIn, moduleCode, moduleIn, loaded, phase>>

\* Code of the microfrontend calls getStyle() and keeps the element.
GetStyle(mfe) ==
    /\ HasFreeElem
    /\ LET p == getStyle(Page, mfe, FreeElem)
       IN  /\ Commit(p)
           /\ last' = [NoCall EXCEPT !.op = "getStyle", !.mfe = mfe, !.elem = FreeElem, !.ev = p.ev,
                                     !.skip = p.skip]
           /\ writes' = IF Reentered(p) THEN Record(writes, ReenterId, ReenterText) ELSE writes
    /\ UNCHANGED <<variant, bundle, bundleIn, moduleCode, moduleIn, loaded, phase>>

\* Code of the host page adds a { once: true } listener of one of the
\* microfrontend's two events whose callback calls dispatch or getStyle.
Listen(mfe, channel, kind) ==
    /\ \A i \in 1..Len(listeners) : listeners[i].kind \in {"replay", "style"}
    /\ kind = "reenterGetStyle" => HasFreeElem
    /\ listeners' = Append(listeners,
            [type |-> IF channel = "styles" THEN StylesEvent(mfe) ELSE RequestEvent(mfe),
             kind |-> kind, mfe |-> mfe, variant |-> variant, elem |-> 0, n |-> 0])
    /\ last' = [NoCall EXCEPT !.op = "listen", !.id = channel, !.style = kind]
    /\ UNCHANGED <<variant, windowStyles, windowShadow, elems, hosts, writes, threw, deadWrite,
                   bundle, bundleIn, moduleCode, moduleIn, loaded, phase>>

\* The program drops its last reference to a style element.
Drop(e) ==
    /\ elems[e].state = "live"
    /\ elems[e].held
    /\ \A h \in 1..MaxHosts : \A i \in 1..Len(hosts[h].children) : hosts[h].children[i] # e
    /\ elems' = [elems EXCEPT ![e].held = FALSE]
    /\ UNCHANGED <<variant, windowStyles, windowShadow, listeners, hosts, writes, last, threw, deadWrite, bundle, bundleIn, moduleCode, moduleIn, loaded, phase>>

\* The garbage collector reclaims an unreachable style element.
Collect(e) ==
    /\ elems[e].state = "live"
    /\ ~elems[e].held
    /\ ~(ListenerRetains(e) /\ ~elems[e].aborted)
    /\ elems' = [elems EXCEPT ![e].state = "collected", ![e].content = "", ![e].got = FALSE]
    /\ UNCHANGED <<variant, windowStyles, windowShadow, listeners, hosts, writes, last, threw, deadWrite, bundle, bundleIn, moduleCode, moduleIn, loaded, phase>>

\* The garbage collector reclaims the FinalizationRegistry made for an
\* element: nothing references it once getStyle has returned, and a
\* reclaimed registry never runs its callback.
CollectRegistry(e) ==
    /\ elems[e].state # "none"
    /\ elems[e].finreg = "alive"
    /\ ~elems[e].aborted
    /\ elems' = [elems EXCEPT ![e].finreg = "collected"]
    /\ UNCHANGED <<variant, windowStyles, windowShadow, listeners, hosts, writes, last, threw, deadWrite, bundle, bundleIn, moduleCode, moduleIn, loaded, phase>>

\* The registry's cleanup callback runs for a reclaimed element: abort => abort.abort()
Finalize(e) ==
    /\ elems[e].state = "collected"
    /\ elems[e].finreg = "alive"
    /\ ~elems[e].aborted
    /\ elems' = [elems EXCEPT ![e].aborted = TRUE]
    /\ listeners' = abort(listeners, e)
    /\ UNCHANGED <<variant, windowStyles, windowShadow, hosts, writes, last, threw, deadWrite, bundle, bundleIn, moduleCode, moduleIn, loaded, phase>>

\* The host page calls the mount function on one of its host elements.
Mount(mfe, h) ==
    /\ hosts[h].reachable
    /\ (CanAttachShadow(Page, h) => HasFreeElem)
    /\ LET m == mount(Page, mfe, h, FreeElem)
       IN  /\ Commit(m.page)
           /\ last' = [NoCall EXCEPT !.op = "mount", !.host = h, !.ret = m.ret,
                                     !.elem = IF m.ret = "dispose" THEN FreeElem ELSE 0,
                                     !.ev = m.page.ev, !.skip = m.page.skip]
    /\ UNCHANGED <<variant, writes, bundle, bundleIn, moduleCode, moduleIn, loaded, phase>>

HostStyles(h) == {hosts[h].children[i].elem : i \in 1..Len(hosts[h].children)} \ {0}

\* The host page removes a host element and drops its references to it:
\* the host, its shadow root and the shadow root's children become unreachable.
DropHost(h) ==
    /\ hosts[h].reachable
    /\ hosts[h].shadow = "attached"
    /\ hosts' = [hosts EXCEPT ![h].reachable = FALSE]
    /\ elems' = [e \in 1..MaxElems |->
                    IF e \in HostStyles(h) THEN [elems[e] EXCEPT !.held = FALSE] ELSE elems[e]]
    /\ last' = [NoCall EXCEPT !.op = "dropHost", !.host = h]
    /\ UNCHANGED <<variant, windowStyles, windowShadow, listeners, writes, threw, deadWrite, bundle, bundleIn, moduleCode, moduleIn, loaded, phase>>

\* The garbage collector reclaims an unreachable host with its shadow tree.
CollectHost(h) ==
    /\ ~hosts[h].reachable
    /\ hosts[h].shadow = "attached"
    /\ \A e \in HostStyles(h) : ~(ListenerRetains(e) /\ ~elems[e].aborted)
    /\ hosts' = [hosts EXCEPT ![h].shadow = "collected", ![h].children = <<>>]
    /\ elems' = [e \in 1..MaxElems |->
                    IF e \in HostStyles(h)
                    THEN [elems[e] EXCEPT !.state = "collected", !.content = "", !.got = FALSE]
                    ELSE elems[e]]
    /\ last' = [NoCall EXCEPT !.op = "collectHost", !.host = h]
    /\ UNCHANGED <<variant, windowStyles, windowShadow, listeners, writes, threw, deadWrite, bundle, bundleIn, moduleCode, moduleIn, loaded, phase>>

\* The page of a running microfrontend: its chunks dispatch, its code
\* creates style elements.
Next ==
    \/ \E id \in Ids, style \in Texts : Dispatch(App, id, style)
    \/ GetStyle(App)

Spec == Init /\ [][Next]_vars

\* The same page with the garbage collector at work, over one fragment id.
GcIds == {"main"}

GcNext ==
    \/ \E id \in GcIds, style \in Texts : Dispatch(App, id, style)
    \/ GetStyle(App)
    \/ \E e \in 1..MaxElems : Drop(e)
    \/ \E e \in 1..MaxElems : Collect(e)
    \/ \E e \in 1..MaxElems : CollectRegistry(e)
    \/ \E e \in 1..MaxElems : Finalize(e)

GcSpec == Init /\ [][GcNext]_vars

\* The host runs the cleanup callbacks of the registries that are still
\* there: a callback that stays due is eventually run.
LiveSpec == GcSpec /\ \A e \in 1..MaxElems : WF_vars(Finalize(e))

\* A host page that mounts the microfrontend on its host elements.
MountNext ==
    \/ \E h \in 1..MaxHosts : Mount(App, h)
    \/ \E h \in 1..MaxHosts : DropHost(h)
    \/ \E h \in 1..MaxHosts : CollectHost(h)
    \/ \E id \in GcIds, style \in Texts : Dispatch(App, id, style)

MountSpec == Init /\ [][MountNext]_vars

\* A page whose host code listens to the microfrontend's events and calls
\* back into it from the listener.
ReenterNext ==
    \/ \E id \in GcIds, style \in Texts : Dispatch(App, id, style)
    \/ GetStyle(App)
    \/ \E channel \in {"styles", "request"}, kind \in {"reenterDispatch", "reenterGetStyle"} :
            Listen(App, channel, kind)

ReenterSpec == Init /\ [][ReenterNext]_vars

\* A page that runs two microfrontends, the name of one beginning with
\* the name of the other.
PageNext ==
    \/ \E mfe \in Mfes, id \in GcIds, style \in Texts : Dispatch(mfe, id, style)
    \/ \E mfe \in Mfes : GetStyle(mfe)

PageSpec == Init /\ [][PageNext]_vars

----------------------------------------------------------------------------
(* String methods the build uses                                           *)

\* The backtick character.
BT == "@"

EndsWith(s, suffix) ==
    Len(s) >= Len(suffix) /\ SubSeq(s, Len(s) - Len(suffix) + 1, Len(s)) = suffix

\* Where pat first occurs in s at or after i; 0 when it does not.
IndexFrom(s, pat, i) ==
    IF \E j \in i..Len(s) : StartsWithAt(s, j, pat)
    THEN CHOOSE j \in i..Len(s) :
            StartsWithAt(s, j, pat) /\ \A k \in i..(j - 1) : ~StartsWithAt(s, k, pat)
    ELSE 0

WhiteSpace == {" ", "\n", "\t", "\r"}

RECURSIVE trim(_)
\* String.prototype.trim
trim(s) ==
    IF Len(s) = 0 THEN s
    ELSE IF Char(s, 1) \in WhiteSpace THEN trim(Tail(s))
    ELSE IF Char(s, Len(s)) \in WhiteSpace THEN trim(SubSeq(s, 1, Len(s) - 1))
    ELSE s

RECURSIVE replaceAllChar(_, _, _)
\* s.replaceAll(c, by) for a one-character string pattern c and a replacement
\* without $ patterns
replaceAllChar(s, c, by) ==
    IF Len(s) = 0 THEN ""
    ELSE (IF Char(s, 1) = c THEN by ELSE Char(s, 1)) \o replaceAllChar(Tail(s), c, by)

RECURSIVE GetSubstitution(_, _, _, _)
\* The replacement text of String.prototype.replace for a string pattern:
\* $$ is $, $& the matched text, $ followed by a backtick the text before
\* the match, $' the text after it; any other $ stands for itself.
GetSubstitution(matched, before, after, replacement) ==
    IF Len(replacement) = 0 THEN ""
    ELSE IF Char(replacement, 1) = "$" /\ Len(replacement) >= 2
              /\ Char(replacement, 2) \in {"$", "&", BT, "'"}
    THEN (CASE Char(replacement, 2) = "$" -> "$"
            [] Char(replacement, 2) = "&" -> matched
            [] Char(replacement, 2) = BT -> before
            [] Char(replacement, 2) = "'" -> after)
         \o GetSubstitution(matched, before, after, SubSeq(replacement, 3, Len(replacement)))
    ELSE Char(replacement, 1) \o GetSubstitution(matched, before, after, Tail(replacement))

\* s.replace(pat, replacement) for a string pattern: the first occurrence only.
replace(s, pat, replacement) ==
    LET at == IndexFrom(s, pat, 1)
        before == SubSeq(s, 1, at - 1)
        after == SubSeq(s, at + Len(pat), Len(s))
    IN  IF at = 0 THEN s
        ELSE before \o GetSubstitution(pat, before, after, replacement) \o after

----------------------------------------------------------------------------
(* The link pattern /<link.+href="\.\/.+\.css">/g                           *)

LineTerminators == {"\n", "\r"}

LinkOpen == "<link"
LocalHref == "href=\"./"
CssClose == ".css\">"

\* The last index of the line that holds index i (a dot matches no line terminator).
LineEnd(s, i) ==
    IF \E j \in i..Len(s) : Char(s, j) \in LineTerminators
    THEN (CHOOSE j \in i..Len(s) :
            Char(s, j) \in LineTerminators /\ \A k \in i..(j - 1) : Char(s, k) \notin LineTerminators) - 1
    ELSE Len(s)

\* The places where the pattern's href part may start for a match that
\* starts at i: after <link and at least one character, with at least one
\* character and .css"> after it on the same line.
HrefPlaces(s, i) ==
    {p \in (i + Len(LinkOpen) + 1)..LineEnd(s, i) :
        /\ StartsWithAt(s, p, LocalHref)
        /\ \E q \in (p + Len(LocalHref) + 1)..LineEnd(s, i) :
              StartsWithAt(s, q, CssClose) /\ q + Len(CssClose) - 1 <= LineEnd(s, i)}

Max(S) == CHOOSE x \in S : \A y \in S : y <= x

\* The index of the last character of the pattern's match that starts at
\* i; 0 when there is none.  Both .+ are greedy: the first takes the last
\* possible href, the second the last .css"> after it.
LinkMatchEnd(s, i) ==
    IF ~StartsWithAt(s, i, LinkOpen) \/ HrefPlaces(s, i) = {} THEN 0
    ELSE LET p == Max(HrefPlaces(s, i))
             q == Max({x \in (p + Len(LocalHref) + 1)..LineEnd(s, i) :
                        StartsWithAt(s, x, CssClose) /\ x + Len(CssClose) - 1 <= LineEnd(s, i)})
         IN  q + Len(CssClose) - 1

RECURSIVE stripLinksFrom(_, _)
\* source.replaceAll(pattern, ''): the matches from left to right, none overlapping.
stripLinksFrom(s, i) ==
    IF i > Len(s) THEN ""
    ELSE IF LinkMatchEnd(s, i) > 0 THEN stripLinksFrom(s, LinkMatchEnd(s, i) + 1)
    ELSE Char(s, i) \o stripLinksFrom(s, i + 1)

stripLinks(s) == stripLinksFrom(s, 1)

----------------------------------------------------------------------------
(* generateBundle                                                          *)

\* The source text of the dispatcher function, as Function.prototype.toString gives it.
DispatchSource == "dispatch"

\* The output of the nested build of the module (dispatch)(args).
dispatchCompiled == "(" \o DispatchSource \o ")(args);\n"

Asset(fileName, source) ==
    [type |-> "asset", fileName |-> fileName, name |-> "", code |-> "", source |-> source,
     importedCss |-> <<>>]

Chunk(fileName, name, code, importedCss) ==
    [type |-> "chunk", fileName |-> fileName, name |-> name, code |-> code, source |-> "",
     importedCss |-> importedCss]

\* Set.prototype.has on the chunk's importedCss
has(set, x) == \E i \in 1..Len(set) : set[i] = x

\* The CSS assets of the bundle that the chunk imports, in the bundle's order.
Styles(b, chunk) ==
    SelectSeq(b, LAMBDA o : EndsWith(o.fileName, ".css") /\ has(chunk.importedCss, o.fileName))

TemplateLiteral(s) == BT \o s \o BT

\* The text spliced for the style argument: each asset trimmed, its
\* backticks escaped, the assets joined.
StyleText(styles, v) ==
    Join([i \in 1..Len(styles) |-> replaceAllChar(trim(styles[i].source), BT, "\\" \o BT)],
         Sep(v))

\* The code of a chunk after the dispatcher call is appended.
Appended(chunk, style, v, name) ==
    IF v = "MFE"
    THEN chunk.code \o "\n;"
            \o replace(dispatchCompiled, "(args)",
                       "(" \o TemplateLiteral(chunk.name) \o "," \o TemplateLiteral(style) \o ")")
    ELSE chunk.code \o "\n\n;(" \o DispatchSource \o ")("
            \o TemplateLiteral(name) \o "," \o TemplateLiteral(chunk.name) \o ","
            \o TemplateLiteral(style) \o ")"

\* js.forEach(chunk => ...)
rewriteChunk(b, chunk, v, name) ==
    LET styles == Styles(b, chunk)
    IN  IF Len(styles) = 0 THEN chunk
        ELSE [chunk EXCEPT !.code = Appended(chunk, StyleText(styles, v), v, name),
                           !.importedCss = <<>>]

\* generateBundle(_, bundle) of mfe:css, for the microfrontend called name.
generateBundle(b, v, name) ==
    [i \in 1..Len(b) |->
        IF EndsWith(b[i].fileName, ".html") THEN [b[i] EXCEPT !.source = stripLinks(@)]
        ELSE IF EndsWith(b[i].fileName, ".js") THEN rewriteChunk(b, b[i], v, name)
        ELSE b[i]]

----------------------------------------------------------------------------
(* How the JavaScript engine reads the appended call                       *)

Failed == [ok |-> FALSE, value |-> "", end |-> 0]

\* The character a backslash and c stand for in a template literal; a
\* decimal digit, x or u after the backslash needs more than the model's
\* texts give it and is a SyntaxError.
EscapeValue(c) ==
    CASE c = "n" -> "\n" [] c = "t" -> "\t" [] c = "r" -> "\r"
      [] c \in LineTerminators -> ""
      [] OTHER -> c

RECURSIVE cook(_, _)
\* The value of the template literal whose text starts at i, after the
\* opening backtick, and the index of its closing backtick.  ok is FALSE
\* when the literal does not end, holds a bad escape, or holds a
\* substitution: its value is then not a text of its own.
cook(s, i) ==
    IF i > Len(s) THEN Failed
    ELSE IF Char(s, i) = BT THEN [ok |-> TRUE, value |-> "", end |-> i]
    ELSE IF Char(s, i) = "\\"
    THEN IF i + 1 > Len(s) \/ Char(s, i + 1) \in (Digits \cup {"x", "u"}) THEN Failed
         ELSE LET rest == cook(s, i + 2)
              IN  IF rest.ok THEN [rest EXCEPT !.value = EscapeValue(Char(s, i + 1)) \o @]
                  ELSE Failed
    ELSE IF Char(s, i) = "$" /\ i + 1 <= Len(s) /\ Char(s, i + 1) = "{" THEN Failed
    ELSE LET rest == cook(s, i + 1)
         IN  IF rest.ok THEN [rest EXCEPT !.value = Char(s, i) \o @] ELSE Failed

RECURSIVE arguments(_, _)
\* The values of the template literals of an argument list, from the
\* literal's opening backtick at i to the closing parenthesis.
arguments(s, i) ==
    IF ~StartsWithAt(s, i, BT) THEN [ok |-> FALSE, args |-> <<>>, end |-> 0]
    ELSE LET lit == cook(s, i + 1)
         IN  IF ~lit.ok THEN [ok |-> FALSE, args |-> <<>>, end |-> 0]
             ELSE IF StartsWithAt(s, lit.end + 1, ")")
             THEN [ok |-> TRUE, args |-> <<lit.value>>, end |-> lit.end + 1]
             ELSE IF StartsWithAt(s, lit.end + 1, ",")
             THEN LET more == arguments(s, lit.end + 2)
                  IN  IF more.ok THEN [more EXCEPT !.args = <<lit.value>> \o @]
                      ELSE [ok |-> FALSE, args |-> <<>>, end |-> 0]
             ELSE [ok |-> FALSE, args |-> <<>>, end |-> 0]

\* What precedes and follows the argument list of the appended call.
CallHead(v) == IF v = "MFE" THEN "\n;(" \o DispatchSource \o ")(" ELSE "\n\n;(" \o DispatchSource \o ")("
CallTail(v) == IF v = "MFE" THEN ";\n" ELSE ""

\* The one dispatcher call that the text after a chunk's own code is, with
\* the values of its arguments; ok is FALSE when the text is anything else.
AppendedCall(tail, v) ==
    IF ~StartsWithAt(tail, 1, CallHead(v)) THEN [ok |-> FALSE, args |-> <<>>]
    ELSE LET r == arguments(tail, Len(CallHead(v)) + 1)
         IN  IF r.ok /\ SubSeq(tail, r.end + 1, Len(tail)) = CallTail(v)
             THEN [ok |-> TRUE, args |-> r.args]
             ELSE [ok |-> FALSE, args |-> <<>>]

----------------------------------------------------------------------------
(* Builds                                                                  *)

LocalLink == "<link rel=\"stylesheet\" href=\"./assets/a.css\">"
ExternalLink == "<link rel=\"stylesheet\" href=\"https://cdn/x.css\">"
ScriptTag == "<script src=\"./main.js\"></script>"
HtmlTags == {LocalLink, ExternalLink, ScriptTag, "\n"}

HtmlTagSeqs == UNION {[1..n -> HtmlTags] : n \in 0..MaxTags}

\* Texts of the CSS asset a.css: plain, padded with white space, with an
\* escaped selector, with a backtick, with $ before a quote, with ${.
CssTexts ==
    {".x{color:red}", " .y{}\n", ".a\\:b{}", "p:after{content:'" \o BT \o "'}",
     "i{content:'$'}", "a{b:${c}}"}

CssA(text) == Asset("assets/a.css", text)
CssB == Asset("assets/b.css", ".b{}")

ImportsOfMain == {<<>>, <<"assets/a.css">>, <<"assets/a.css", "assets/b.css">>,
                  <<"assets/b.css", "assets/a.css">>, <<"assets/gone.css">>}
ImportsOfLazy == {<<>>, <<"assets/a.css">>}

\* The bundles the bundler may hand over: one HTML asset, the two CSS
\* assets in either order, two chunks.
Bundles ==
    {<<Asset("index.html", Join(tags, ""))>> \o css
        \o <<Chunk("main.js", "main", "m();", im), Chunk("assets/lazy.js", "lazy", "l();", il)>> :
        tags \in HtmlTagSeqs,
        css \in {<<CssA(t), CssB>> : t \in CssTexts} \cup {<<CssB, CssA(t)>> : t \in CssTexts},
        im \in ImportsOfMain, il \in ImportsOfLazy}

BuildInit ==
    /\ variant \in Variants
    /\ PageInit
    /\ bundleIn \in Bundles
    /\ bundle = bundleIn
    /\ moduleCode = ""
    /\ moduleIn = NoModule
    /\ loaded = {}
    /\ phase = "bundled"

\* The bundler calls the generateBundle hook of mfe:css.
GenerateBundle ==
    /\ phase = "bundled"
    /\ bundle' = generateBundle(bundle, variant, App)
    /\ phase' = "generated"
    /\ UNCHANGED <<variant, pageVars, bundleIn, moduleCode, moduleIn, loaded>>

BuildNext == GenerateBundle

BuildSpec == BuildInit /\ [][BuildNext]_vars

----------------------------------------------------------------------------
(* A page that loads the chunks of a generated bundle                      *)

CssC == Asset("assets/c.css", ".c{}")

\* The names the bundler gives to chunks: an entry is named by its alias, a
\* chunk of a dynamic import by the file name of its module without the
\* extension, so the chunks of pages/home/index.ts and pages/about/index.ts
\* are both called index.
EntryName == "index.js"
DynamicNames == {"index", "lazy"}

\* Bundles of one entry and two dynamically imported chunks, each chunk
\* with CSS of its own.
LoadBundles ==
    {<<Asset("index.html", ""), CssA(".x{color:red}"), CssB, CssC,
       Chunk("index.js", EntryName, "m();", ie),
       Chunk("assets/" \o n2 \o "-1.js", n2, "h();", <<"assets/a.css">>),
       Chunk("assets/" \o n3 \o "-2.js", n3, "l();", i3)>> :
        ie \in {<<>>, <<"assets/c.css">>}, n2 \in DynamicNames, n3 \in DynamicNames,
        i3 \in {<<"assets/b.css">>, <<"assets/a.css", "assets/b.css">>}}

LoadInit ==
    /\ variant \in Variants
    /\ PageInit
    /\ bundleIn \in LoadBundles
    /\ bundle = bundleIn
    /\ moduleCode = ""
    /\ moduleIn = NoModule
    /\ loaded = {}
    /\ phase = "bundled"

\* The statement generateBundle appended to chunk i, as the engine reads it.
StatementOf(i) ==
    AppendedCall(SubSeq(bundle[i].code, Len(bundleIn[i].code) + 1, Len(bundle[i].code)), variant)

\* The page executes chunk i of the generated bundle, by a static or a
\* dynamic import: the chunk's own code, then the appended dispatcher call.
\* A statement that is no well-formed call makes the chunk throw.
RunChunk(i) ==
    /\ phase = "generated"
    /\ EndsWith(bundle[i].fileName, ".js")
    /\ i \notin loaded
    /\ loaded' = loaded \cup {i}
    /\ IF bundle[i].code = bundleIn[i].code
       THEN UNCHANGED <<pageVars>>
       ELSE IF ~StatementOf(i).ok
       THEN /\ threw' = TRUE
            /\ UNCHANGED <<windowStyles, windowShadow, listeners, elems, hosts, writes, last, deadWrite>>
       ELSE LET args == StatementOf(i).args
                id == args[Len(args) - 1]
                style == args[Len(args)]
                mfe == IF variant = "MFE" THEN App ELSE args[1]
                p == dispatch(Page, variant, mfe, id, style)
            IN  /\ Commit(p)
                /\ writes' = Record(writes, id, style)
                /\ last' = [NoCall EXCEPT !.op = "dispatch", !.mfe = mfe, !.id = id, !.style = style,
                                          !.first = ~Written(writes, id), !.ev = p.ev,
                                          !.skip = p.skip]
    /\ UNCHANGED <<variant, bundle, bundleIn, moduleCode, moduleIn, phase>>

\* The places of a bundle's assets and chunks.
Places == 1..Len(CHOOSE b \in LoadBundles : TRUE)

LoadNext ==
    \/ GenerateBundle
    \/ \E i \in Places : RunChunk(i)
    \/ GetStyle(App)

LoadSpec == LoadInit /\ [][LoadNext]_vars

----------------------------------------------------------------------------
(* transform                                                               *)

\* Where the match of /name\(.+?\)/ that starts at the "(" before k ends:
\* at least one character, then the first ")" with no line terminator on
\* the way; 0 when there is none.
CallEndGreedy(code, k) ==
    LET ends == {j \in (k + 1)..Len(code) :
                    Char(code, j) = ")" /\ \A m \in k..(j - 1) : Char(code, m) \notin LineTerminators}
    IN  IF ends = {} THEN 0 ELSE Max(ends)

CallEnd(code, k) ==
    LET ends == {j \in (k + 1)..Len(code) :
                    Char(code, j) = ")" /\ \A m \in k..(j - 1) : Char(code, m) \notin LineTerminators}
    IN  IF ends = {} THEN 0 ELSE CHOOSE j \in ends : \A x \in ends : j <= x

\* code.replace(/fname\(.+?\)/, replacement): the pattern has no g flag,
\* the first match only is replaced.
replaceCall(code, fname, replacement) ==
    LET open == fname \o "("
        starts == {i \in 1..Len(code) :
                      StartsWithAt(code, i, open) /\ CallEnd(code, i + Len(open)) > 0}
    IN  IF starts = {} THEN code
        ELSE LET i == CHOOSE x \in starts : \A y \in starts : x <= y
                 j == CallEnd(code, i + Len(open))
                 before == SubSeq(code, 1, i - 1)
                 after == SubSeq(code, j + 1, Len(code))
             IN  before \o GetSubstitution(SubSeq(code, i, j), before, after, replacement) \o after

\* The arguments the dispatcher is bound to: the name, in the NAME variant.
BoundName(v, name) == IF v = "MFE" THEN "" ELSE TemplateLiteral(name) \o ","

\* transform: code => code.replace(...).replace(...)
transform(code, v, name) ==
    replaceCall(
        replaceCall(code, "__vite__updateStyle",
                    ";(" \o DispatchSource \o ")(" \o BoundName(v, name) \o "__vite__id,__vite__css)"),
        "__vite__removeStyle",
        "(" \o DispatchSource \o ")(" \o BoundName(v, name) \o "__vite__id,'')")

----------------------------------------------------------------------------
(* The development server                                                  *)

RECURSIVE JsonEscape(_)
JsonEscape(s) ==
    IF Len(s) = 0 THEN ""
    ELSE (CASE Char(s, 1) = "\"" -> "\\\""
            [] Char(s, 1) = "\\" -> "\\\\"
            [] Char(s, 1) = "\n" -> "\\n"
            [] OTHER -> Char(s, 1)) \o JsonEscape(Tail(s))

\* JSON.stringify of a string
JsonString(s) == "\"" \o JsonEscape(s) \o "\""

ClientImport ==
    "import { updateStyle as __vite__updateStyle, removeStyle as __vite__removeStyle } from \"/@vite/client\""

\* The lines of the JS module the development server emits for a CSS
\* file, with the two calls as given.
CssModuleLines(id, css, middle, update, remove) ==
    <<ClientImport,
      "const __vite__id = " \o JsonString(id),
      "const __vite__css = " \o JsonString(css),
      update,
      middle,
      "import.meta.hot.prune(() => " \o remove \o ")">>

CssModule(id, css, middle) ==
    [kind |-> "css", id |-> id, css |-> css, middle |-> middle,
     code |-> Join(CssModuleLines(id, css, middle,
                                  "__vite__updateStyle(__vite__id, __vite__css)",
                                  "__vite__removeStyle(__vite__id)"), "\n")]

PlainModule(code) == [kind |-> "plain", id |-> "", css |-> "", middle |-> "", code |-> code]

ModuleIds == {"/src/a.css", "/src/(app)/b.css", "/src/c.module.css"}
ModuleCss == {"", ".x{color:red}", "a{b:url(i.png)}\n.y{}", "q:after{content:\")\"}"}
ModuleMiddles == {"import.meta.hot.accept()", "export const y = \"_y_1\"\nexport default { y }"}
PlainCodes == {"", "export const a = f(1)\n", "import \"/src/a.css\"\nrender(root())"}

Modules ==
    {CssModule(id, css, middle) : id \in ModuleIds, css \in ModuleCss, middle \in ModuleMiddles}
        \cup {PlainModule(code) : code \in PlainCodes}

ServeInit ==
    /\ variant \in Variants
    /\ PageInit
    /\ bundle = <<>>
    /\ bundleIn = <<>>
    /\ moduleIn \in Modules
    /\ moduleCode = moduleIn.code
    /\ loaded = {}
    /\ phase = "loaded"

\* The server calls the transform hook of mfe:css on the module.
Transform ==
    /\ phase = "loaded"
    /\ moduleCode' = transform(moduleCode, variant, App)
    /\ phase' = "transformed"
    /\ UNCHANGED <<variant, pageVars, bundle, bundleIn, moduleIn, loaded>>

ServeNext == Transform

ServeSpec == ServeInit /\ [][ServeNext]_vars

----------------------------------------------------------------------------
(* Claims about the registry and dispatcher protocol                       *)

Registry == windowStyles[StylesKey(App)]

\* The styles events of the identity that the last call dispatched.
Emitted == EventsOf(last.ev, StylesEvent(App))

\* The latest text of every fragment id, joined in first-write order.
FirstWriteAggregate == Join([i \in 1..Len(writes) |-> writes[i].value], Sep(variant))

\* C1: after any sequence of publish and remove calls, the payload of the
\* styles event emitted by the last call is the latest text of each fragment
\* id, joined in the order of the ids' first writes, for any fragment ids
\* (stated for the dispatcher of part_003 lines 156-164, which joins with '').
C1_PayloadInFirstWriteOrder ==
    (last.op = "dispatch" /\ variant = "MFE") =>
        /\ Len(Emitted) >= 1
        /\ Emitted[Len(Emitted)].detail = FirstWriteAggregate

\* C2: the content of every live style element is the registry's current
\* aggregate, and the empty text while there is no registry.
C2_LiveContentIsAggregate ==
    \A e \in 1..MaxElems :
        elems[e].state = "live" =>
            elems[e].content = IF Registry.exists THEN Aggregate(Registry, variant) ELSE ""

\* C2 witness: a style was published after two elements were created, and
\* both elements show it.
C2_Witness ==
    /\ last.op = "dispatch"
    /\ last.style # ""
    /\ \A e \in 1..2 : elems[e].state = "live" /\ elems[e].content # ""
    /\ Len(writes) >= 2

\* C3: a style element created after at least one dispatch call has, when
\* getStyle returns, received a styles event whose payload is the full
\* aggregate of those calls, also when that aggregate is the empty text.
C3_ReplayOnCreate ==
    (last.op = "getStyle" /\ Len(writes) >= 1) =>
        /\ Len(Emitted) = 1
        /\ Emitted[1].detail = Aggregate(Registry, variant)
        /\ elems[last.elem].got
        /\ elems[last.elem].content = Emitted[1].detail

\* C3 witness: publish, then remove, then a new subscriber: it received an
\* event carrying the empty text.
C3_Witness ==
    /\ last.op = "getStyle"
    /\ Len(writes) = 1
    /\ writes[1].value = ""
    /\ elems[last.elem].got
    /\ elems[last.elem].content = ""

\* C4: a dispatch call that repeats the previous one leaves the registry,
\* the listeners and the elements as they were, and every dispatch call
\* emits exactly one styles event.
C4_IdempotentOneEmission ==
    /\ [](last.op = "dispatch" => Len(Emitted) = 1)
    /\ [][(last'.op = "dispatch" /\ last'.repeat) =>
            (windowStyles' = windowStyles /\ listeners' = listeners /\ elems' = elems)]_vars

\* C4 witness: the same call made twice in a row, after writes of other ids.
C4_Witness ==
    /\ last.op = "dispatch"
    /\ last.repeat
    /\ last.style # ""
    /\ Len(writes) = 3
    /\ Len(Emitted) = 1

\* The last call removed a fragment id that had never been written.
RemovedUnknown(c) == c.op = "dispatch" /\ c.style = "" /\ c.first

----------------------------------------------------------------------------
(* Claims about the weak subscription                                      *)

HasStyleListener(e) ==
    \E i \in 1..Len(listeners) : listeners[i].kind = "style" /\ listeners[i].elem = e

\* C6: whenever a style element returned by getStyle is garbage collected,
\* its styles listener is eventually removed from the window.
C6_ReclaimedEventuallyUnsubscribed ==
    \A e \in 1..MaxElems : (elems[e].state = "collected") ~> ~HasStyleListener(e)

\* C7: once a style element is reclaimed, no styles emission throws and none
\* writes through the element's listener, whether or not the listener has
\* been removed.
C7_ReclaimedNeverWritten == ~threw /\ ~deadWrite

\* C7 witness: a dispatch call ran the listener of a reclaimed element,
\* which is still registered, while a live element took the payload.
C7_Witness ==
    /\ last.op = "dispatch"
    /\ last.skip
    /\ last.style # ""
    /\ \E e \in 1..MaxElems : elems[e].state = "collected" /\ HasStyleListener(e)
    /\ \E e \in 1..MaxElems : elems[e].state = "live" /\ elems[e].content = last.style

----------------------------------------------------------------------------
(* Claims about bootstrap                                                  *)

NeverMounted == \A h \in 1..MaxHosts : hosts[h].shadow = "none"

\* What the claim says holds once mount was called on host h.
Mounted(h) ==
    /\ getShadow(Page, App) = <<h>>
    /\ Len(hosts[h].children) = 2
    /\ hosts[h].children[1].tag = "style"
    /\ hosts[h].children[2] = DivChild
    /\ HasStyleListener(hosts[h].children[1].elem)
    /\ last.ret = "dispose"

----------------------------------------------------------------------------
(* Claims about generateBundle                                             *)

IsJs(o) == EndsWith(o.fileName, ".js")
IsHtml(o) == EndsWith(o.fileName, ".html")

\* The orders in which the texts of a chunk's CSS assets may be put together.
Orders(styles) ==
    {f \in [1..Len(styles) -> 1..Len(styles)] : \A i, j \in 1..Len(styles) : f[i] = f[j] => i = j}

\* The texts a style argument may be: the whole text of every CSS asset the
\* chunk imports, white space around an asset aside, in any order.
FullTexts(styles) ==
    {Join([i \in 1..Len(styles) |-> trim(styles[f[i]].source)], Sep(variant)) : f \in Orders(styles)}

\* The arguments before the fragment id: the identity, in the NAME variant.
Bound(v) == IF v = "MFE" THEN <<>> ELSE <<App>>

\* C8: after generateBundle every JS chunk that imports a CSS asset of the
\* bundle is its original code followed by exactly one dispatcher call whose
\* fragment id is the chunk's name and whose style argument is the full text
\* of the CSS assets the chunk imports; a chunk that imports none is unchanged.
C8_ChunkEmbedsItsCss ==
    phase = "generated" =>
        \A i \in 1..Len(bundle) :
            IsJs(bundleIn[i]) =>
                LET styles == Styles(bundleIn, bundleIn[i])
                    own == bundleIn[i].code
                    call == AppendedCall(SubSeq(bundle[i].code, Len(own) + 1, Len(bundle[i].code)), variant)
                IN  IF Len(styles) = 0 THEN bundle[i].code = own
                    ELSE /\ StartsWithAt(bundle[i].code, 1, own)
                         /\ call.ok
                         /\ Len(call.args) = Len(Bound(variant)) + 2
                         /\ SubSeq(call.args, 1, Len(Bound(variant))) = Bound(variant)
                         /\ call.args[Len(call.args) - 1] = bundleIn[i].name
                         /\ call.args[Len(call.args)] \in FullTexts(styles)

RECURSIVE Tags(_)
\* The tags and the text between them that an HTML source is made of.
Tags(s) ==
    IF Len(s) = 0 THEN <<>>
    ELSE IF Char(s, 1) = "<" /\ IndexFrom(s, ">", 1) > 0
    THEN LET close == IF StartsWithAt(s, 1, "<script") /\ IndexFrom(s, "</script>", 1) > 0
                      THEN IndexFrom(s, "</script>", 1) + 8
                      ELSE IndexFrom(s, ">", 1)
         IN  <<SubSeq(s, 1, close)>> \o Tags(SubSeq(s, close + 1, Len(s)))
    ELSE <<Char(s, 1)>> \o Tags(Tail(s))

\* A link tag whose href is a relative path of the bundle to a .css file.
IsLocalCssLink(tag) ==
    /\ StartsWithAt(tag, 1, "<link")
    /\ \E p \in 1..Len(tag) :
          /\ StartsWithAt(tag, p, "href=\"./")
          /\ LET q == IndexFrom(tag, "\"", p + 6)
             IN  q > 0 /\ EndsWith(SubSeq(tag, 1, q - 1), ".css")

\* C9: after generateBundle no link tag with a relative ./...css href is
\* left in an HTML asset, and everything else of its source is as it was,
\* however the tags are arranged on its lines.
C9_OnlyLocalLinksStripped ==
    phase = "generated" =>
        \A i \in 1..Len(bundle) :
            IsHtml(bundleIn[i]) =>
                bundle[i].source = Join(SelectSeq(Tags(bundleIn[i].source),
                                                  LAMBDA t : ~IsLocalCssLink(t)), "")

\* The text the style argument of a chunk's call has to evaluate to: the
\* trimmed texts of its CSS assets, joined as generateBundle joins them.
TrimmedText(styles) == Join([i \in 1..Len(styles) |-> trim(styles[i].source)], Sep(variant))

\* The appended call of chunk i of the generated bundle, as the engine reads it.
CallOf(i) ==
    AppendedCall(SubSeq(bundle[i].code, Len(bundleIn[i].code) + 1, Len(bundle[i].code)), variant)

\* C11: for every CSS text the template literal spliced into the appended
\* call evaluates to exactly the trimmed CSS text: the statement is one
\* well-formed dispatcher call (no character of the text ends the literal,
\* starts an interpolation or acts as a replacement pattern) and the value
\* of its style argument is the trimmed text.
C11_EmbeddingRoundTrip ==
    phase = "generated" =>
        \A i \in 1..Len(bundle) :
            (IsJs(bundleIn[i]) /\ Len(Styles(bundleIn, bundleIn[i])) > 0) =>
                /\ CallOf(i).ok
                /\ CallOf(i).args[Len(CallOf(i).args)] = TrimmedText(Styles(bundleIn, bundleIn[i]))

\* The CSS assets of the bundle that the chunk imports, in the order of the
\* file names in the chunk's importedCss.
InImportOrder(b, chunk) ==
    LET present == SelectSeq(chunk.importedCss,
                             LAMBDA f : \E k \in 1..Len(b) : b[k].fileName = f /\ EndsWith(f, ".css"))
    IN  [k \in 1..Len(present) |-> b[CHOOSE j \in 1..Len(b) : b[j].fileName = present[k]]]

\* C12: the fragment text embedded for a chunk with several CSS assets is
\* the concatenation of the assets' texts in the order of their file names
\* in the chunk's importedCss, whatever the order of the assets in the bundle.
C12_ConcatenatedInImportOrder ==
    phase = "generated" =>
        \A i \in 1..Len(bundle) :
            (IsJs(bundleIn[i]) /\ Len(Styles(bundleIn, bundleIn[i])) > 1) =>
                bundle[i].code =
                    Appended(bundleIn[i], StyleText(InImportOrder(bundleIn, bundleIn[i]), variant),
                             variant, App)

\* C13: after generateBundle the importedCss of every JS chunk is empty,
\* also of a chunk whose recorded file names match no .css asset of the bundle.
C13_ImportedCssCleared ==
    phase = "generated" =>
        \A i \in 1..Len(bundle) : IsJs(bundleIn[i]) => bundle[i].importedCss = <<>>

\* The last call ran a listener that called dispatch or getStyle while the
\* call's event was being delivered.
NestedCall ==
    \/ last.op = "dispatch" /\ Len(EventsOf(last.ev, RequestEvent(App))) >= 2
    \/ last.op = "getStyle" /\ Len(EventsOf(last.ev, RequestEvent(App))) >= 2

\* C14: when a listener of the styles event or of the request event calls
\* dispatch or getStyle during a delivery, then after the outermost call
\* has returned the content of every live subscriber is the registry's
\* latest aggregate.
C14_ReentrantDeliveryIsFresh ==
    (NestedCall /\ Registry.exists) =>
        \A e \in 1..MaxElems :
            elems[e].state = "live" => elems[e].content = Aggregate(Registry, variant)

\* A call of the dispatcher with the identity it is bound to.
DispatcherCall(arguments_) ==
    "(" \o DispatchSource \o ")(" \o BoundName(variant, App) \o arguments_ \o ")"

\* C15: transform replaces the __vite__updateStyle call of a module by a
\* dispatcher call with the same fragment id and CSS text, the
\* __vite__removeStyle call by a dispatcher call with the same fragment id
\* and the empty text, both bound to the identity, and leaves the rest of
\* the module as it was; a module with neither call is returned unchanged.
C15_TransformRewritesStyleCalls ==
    phase = "transformed" =>
        moduleCode =
            IF moduleIn.kind = "css"
            THEN Join(CssModuleLines(moduleIn.id, moduleIn.css, moduleIn.middle,
                                     ";" \o DispatcherCall("__vite__id,__vite__css"),
                                     DispatcherCall("__vite__id,''")), "\n")
            ELSE moduleIn.code

\* C15 witness: a CSS module whose text holds a closing parenthesis was
\* transformed, and its code changed.
C15_Witness ==
    /\ phase = "transformed"
    /\ moduleIn.kind = "css"
    /\ moduleIn.css = "q:after{content:\")\"}"
    /\ moduleCode # moduleIn.code
    /\ IndexFrom(moduleCode, "__vite__removeStyle(", 1) = 0

\* Every JS chunk of the generated bundle has been executed.
AllLoaded == phase = "generated" /\ \A i \in 1..Len(bundle) : IsJs(bundle[i]) => i \in loaded

\* C16: after all chunks of a build have executed, in any order, the
\* aggregate of the identity contains the CSS text of every chunk, and no
\* two chunks with CSS publish under the same fragment id.
C16_NoLostCss ==
    AllLoaded =>
        /\ \A i \in 1..Len(bundle) :
              IsJs(bundle[i]) =>
                  \A k \in 1..Len(Styles(bundleIn, bundleIn[i])) :
                      IndexFrom(Aggregate(Registry, variant),
                                trim(Styles(bundleIn, bundleIn[i])[k].source), 1) > 0
        /\ \A i, j \in 1..Len(bundle) :
              (IsJs(bundle[i]) /\ IsJs(bundle[j]) /\ i # j
                  /\ Len(Styles(bundleIn, bundleIn[i])) > 0 /\ Len(Styles(bundleIn, bundleIn[j])) > 0)
                  => bundle[i].name # bundle[j].name

\* The style elements subscribed to the styles of a microfrontend.
SubscribedTo(mfe) ==
    {e \in 1..MaxElems : \E i \in 1..Len(listeners) :
        listeners[i].kind = "style" /\ listeners[i].mfe = mfe /\ listeners[i].elem = e}

\* C17: a dispatch or getStyle call for one identity leaves the registry of
\* every other identity unchanged, emits no event on the other identity's
\* styles and request channels, and does not change the content of a style
\* element subscribed to the other identity.
C17_IdentityIsolation ==
    [][\A a \in Mfes, b \in Mfes :
          (a # b /\ last'.op \in {"dispatch", "getStyle"} /\ last'.mfe = a) =>
              /\ windowStyles'[StylesKey(b)] = windowStyles[StylesKey(b)]
              /\ EventsOf(last'.ev, StylesEvent(b)) = <<>>
              /\ EventsOf(last'.ev, RequestEvent(b)) = <<>>
              /\ \A e \in SubscribedTo(b) : elems'[e] = elems[e]]_vars

\* C17 witness: a style was dispatched for app while app-styles had a
\* registry and a subscribed element with other content.
C17_Witness ==
    /\ last.op = "dispatch" /\ last.mfe = App /\ last.style # ""
    /\ windowStyles[StylesKey(Other)].exists
    /\ \E e \in SubscribedTo(Other) :
          /\ elems[e].content # ""
          /\ elems[e].content # Aggregate(Registry, variant)
    /\ SubscribedTo(App) # {}

====
